---------------------------- MODULE Spec2Model ----------------------------
(***************************************************************************)
(* serde_patch: JSON Merge Patch (RFC 7396) diff and apply over            *)
(* serde_json::Value trees.                                                 *)
(*                                                                         *)
(*   src/src/diff_patch.rs       compute_diff, diff, diff_including        *)
(*   src/src/apply_patch.rs      apply_merge_patch, merge_patch            *)
(*   src/src/apply_patch_mut.rs  apply_merge_patch_mut, merge_patch        *)
(*                                                                         *)
(* Three specifications:                                                   *)
(*   Spec      diff / diff_including of two trees, then the patch merged   *)
(*             onto old by either merge_patch;                             *)
(*   SpecMerge an arbitrary patch tree merged onto an arbitrary base tree; *)
(*   SpecMut   apply_merge_patch / apply_merge_patch_mut on typed User     *)
(*             records (the struct of src/src/lib.rs).                     *)
(***************************************************************************)
EXTENDS Integers, Sequences, FiniteSets, TLC

VARIABLES
    pc,        \* which operation produced the current state
    old,       \* diff's first argument (a tree)
    new,       \* diff's second argument (a tree)
    including, \* diff_including's forced paths (a set of dot-joined strings)
    patch,     \* the patch tree: diff's result / the parsed patch document
    merged,    \* the tree after merge_patch
    current,   \* the caller-owned typed record of apply / apply_mut
    input,     \* the patch bytes given to apply / apply_mut
    ret        \* what apply / apply_mut returned: Ok(..) or Err

vars == <<pc, old, new, including, patch, merged, current, input, ret>>

(***************************************************************************)
(* serde_json::Value.  One record shape per variant.                       *)
(***************************************************************************)
Null == [t |-> "null"]
Bool(b) == [t |-> "bool", b |-> b]
Num(n) == [t |-> "num", n |-> n]
Str(s) == [t |-> "str", s |-> s]
Arr(a) == [t |-> "arr", a |-> a]
Obj(m) == [t |-> "obj", m |-> m]

is_null(v) == v.t = "null"
is_object(v) == v.t = "obj"

\* Option<T>: the empty sequence is None, a one-element sequence is Some.
None == <<>>
Some(v) == <<v>>
IsSome(o) == Len(o) = 1

(***************************************************************************)
(* serde_json::Map<String, Value>.  The tests compare the serialized patch *)
(* with a string whose keys are in ascending order although the structs    *)
(* declare them in another order (lib.rs 22-28 against 56-59), so the map  *)
(* is the key-sorted one: a sequence of <<key, value>> entries kept in     *)
(* ascending key order.  KeyOrder lists the keys the model uses in the     *)
(* order String's Ord gives them.                                          *)
(***************************************************************************)
KeyOrder ==
    <<"a", "active", "age", "avatar_url", "b", "bio", "id", "profile", "username">>

Rank(k) == CHOOSE i \in 1..Len(KeyOrder) : KeyOrder[i] = k

KeyLess(k1, k2) == Rank(k1) < Rank(k2)

MapNew == <<>>

MapKeys(m) == [i \in 1..Len(m) |-> m[i][1]]

KeySet(m) == {m[i][1] : i \in 1..Len(m)}

contains_key(m, k) == k \in KeySet(m)

MapGet(m, k) ==
    IF contains_key(m, k)
    THEN Some(m[CHOOSE i \in 1..Len(m) : m[i][1] = k][2])
    ELSE None

\* A mutant of MapInsert: the insertion-ordered map (a new key goes last).
MapInsertAppend(m, k, v) ==
    IF contains_key(m, k)
    THEN [i \in 1..Len(m) |-> IF m[i][1] = k THEN <<k, v>> ELSE m[i]]
    ELSE Append(m, <<k, v>>)

MapInsert(m, k, v) ==
    SelectSeq(m, LAMBDA e : KeyLess(e[1], k))
        \o << <<k, v>> >>
        \o SelectSeq(m, LAMBDA e : KeyLess(k, e[1]))

MapRemove(m, k) == SelectSeq(m, LAMBDA e : e[1] # k)

(***************************************************************************)
(* diff_patch.rs                                                           *)
(***************************************************************************)
RECURSIVE compute_diff(_, _, _, _)
RECURSIVE DiffNewKeys(_, _, _, _, _, _)
RECURSIVE MarkRemoved(_, _, _, _)

\* lines 21-25
full_path(current_path, key) ==
    IF current_path = "" THEN key ELSE current_path \o "." \o key

\* A mutant of DiffEntry: the forced set is not consulted.
DiffEntryUnforced(diff_map, key, new_value, diff_opt, forced, fp) ==
    IF IsSome(diff_opt) THEN MapInsert(diff_map, key, diff_opt[1]) ELSE diff_map

\* A mutant of DiffEntry: an unchanged key is copied into the patch.
DiffEntryAlways(diff_map, key, new_value, diff_opt, forced, fp) ==
    IF IsSome(diff_opt)
    THEN MapInsert(diff_map, key, diff_opt[1])
    ELSE MapInsert(diff_map, key, new_value)

\* lines 29-33: what one key of new adds to diff_map
DiffEntry(diff_map, key, new_value, diff_opt, forced, fp) ==
    IF IsSome(diff_opt)
    THEN MapInsert(diff_map, key, diff_opt[1])
    ELSE IF fp \in forced
         THEN MapInsert(diff_map, key, new_value)
         ELSE diff_map

\* lines 20-34: the loop over new_map, from entry i on
DiffNewKeys(old_map, new_map, forced, current_path, i, diff_map) ==
    IF i > Len(new_map)
    THEN diff_map
    ELSE LET key == new_map[i][1]
             new_value == new_map[i][2]
             fp == full_path(current_path, key)
             old_value == MapGet(old_map, key)
             diff_opt == compute_diff(old_value, new_value, forced, fp)
         IN  DiffNewKeys(old_map, new_map, forced, current_path, i + 1,
                         DiffEntry(diff_map, key, new_value, diff_opt, forced, fp))

\* A mutant of MarkRemoved: removed keys get no marker.
MarkRemovedNever(old_map, new_map, i, diff_map) == diff_map

\* lines 36-40: the loop over old_map.keys(), from entry i on
MarkRemoved(old_map, new_map, i, diff_map) ==
    IF i > Len(old_map)
    THEN diff_map
    ELSE LET key == old_map[i][1]
         IN  MarkRemoved(old_map, new_map, i + 1,
                         IF ~contains_key(new_map, key)
                         THEN MapInsert(diff_map, key, Null)
                         ELSE diff_map)

\* A mutant of AtomicDiff: equality is not tested.
AtomicDiffAlways(old_opt, new_v, forced, current_path) == Some(new_v)

\* lines 48-53: one side is not an object, or old is absent
AtomicDiff(old_opt, new_v, forced, current_path) ==
    LET equal == old_opt = Some(new_v)
    IN  IF equal /\ current_path \notin forced THEN None ELSE Some(new_v)

\* lines 10-55
compute_diff(old_opt, new_v, forced, current_path) ==
    IF IsSome(old_opt) /\ is_object(old_opt[1]) /\ is_object(new_v)
    THEN LET old_map == old_opt[1].m
             new_map == new_v.m
             diff_map == MarkRemoved(old_map, new_map, 1,
                             DiffNewKeys(old_map, new_map, forced, current_path, 1, MapNew))
         IN  IF diff_map = MapNew THEN None ELSE Some(Obj(diff_map))
    ELSE AtomicDiff(old_opt, new_v, forced, current_path)

\* Option::unwrap_or(Value::Object(Map::new())), lines 82 and 114
unwrap_or_empty(diff_opt) == IF IsSome(diff_opt) THEN diff_opt[1] ELSE Obj(MapNew)

\* lines 78-83, with T = serde_json::Value (to_value of a Value is that Value)
diff(old_v, new_v) == unwrap_or_empty(compute_diff(Some(old_v), new_v, {}, ""))

\* lines 105-115
diff_including(old_v, new_v, incl) ==
    unwrap_or_empty(compute_diff(Some(old_v), new_v, incl, ""))

(***************************************************************************)
(* apply_patch.rs                                                          *)
(***************************************************************************)
RECURSIVE merge_patch(_, _)
RECURSIVE MergeEntries(_, _, _)

\* A mutant of MergeEntry: a null entry stores null instead of removing.
MergeEntryKeepNull(target_map, key, patch_value) ==
    LET target_entry ==
            IF contains_key(target_map, key) THEN MapGet(target_map, key)[1] ELSE Null
    IN  MapInsert(target_map, key, merge_patch(target_entry, patch_value))

\* lines 37-42: one (key, patch_value) of the patch object
MergeEntry(target_map, key, patch_value) ==
    IF is_null(patch_value)
    THEN MapRemove(target_map, key)
    ELSE LET target_entry ==
                 IF contains_key(target_map, key)
                 THEN MapGet(target_map, key)[1]
                 ELSE Null
         IN  MapInsert(target_map, key, merge_patch(target_entry, patch_value))

\* lines 36-43: the loop over patch_map, from entry i on
MergeEntries(target_map, patch_map, i) ==
    IF i > Len(patch_map)
    THEN target_map
    ELSE MergeEntries(MergeEntry(target_map, patch_map[i][1], patch_map[i][2]),
                      patch_map, i + 1)

\* A mutant of merge_patch: the patch replaces the target whatever it is.
merge_patch_replace(target, patch_v) == patch_v

\* A mutant of merge_patch: an object patch is merged only into an object.
merge_patch_if_object(target, patch_v) ==
    IF is_object(patch_v)
    THEN IF is_object(target)
         THEN Obj(MergeEntries(target.m, patch_v.m, 1))
         ELSE target
    ELSE patch_v

\* A mutant of merge_patch: the target is always reset to the empty object.
merge_patch_reset(target, patch_v) ==
    IF is_object(patch_v) THEN Obj(MergeEntries(MapNew, patch_v.m, 1)) ELSE patch_v

\* lines 28-47
merge_patch(target, patch_v) ==
    IF is_object(patch_v)
    THEN LET target_map == IF ~is_object(target) THEN MapNew ELSE target.m
         IN  Obj(MergeEntries(target_map, patch_v.m, 1))
    ELSE patch_v

(***************************************************************************)
(* apply_patch_mut.rs: its own copy of merge_patch                         *)
(***************************************************************************)
RECURSIVE merge_patch_mut(_, _)
RECURSIVE MergeEntriesMut(_, _, _)

\* lines 37-42
MergeEntryMut(target_map, key, patch_value) ==
    IF is_null(patch_value)
    THEN MapRemove(target_map, key)
    ELSE LET target_entry ==
                 IF contains_key(target_map, key)
                 THEN MapGet(target_map, key)[1]
                 ELSE Null
         IN  MapInsert(target_map, key, merge_patch_mut(target_entry, patch_value))

\* lines 36-43
MergeEntriesMut(target_map, patch_map, i) ==
    IF i > Len(patch_map)
    THEN target_map
    ELSE MergeEntriesMut(MergeEntryMut(target_map, patch_map[i][1], patch_map[i][2]),
                         patch_map, i + 1)

\* lines 30-47
merge_patch_mut(target, patch_v) ==
    IF is_object(patch_v)
    THEN LET target_map == IF ~is_object(target) THEN MapNew ELSE target.m
         IN  Obj(MergeEntriesMut(target_map, patch_v.m, 1))
    ELSE patch_v

(***************************************************************************)
(* The trees the specifications draw their inputs from.  Keys "a" and "b"; *)
(* under "a" a value may itself be an object over "a" and "b".             *)
(***************************************************************************)
MaxNum == 2

Numbers == {Num(n) : n \in 1..MaxNum}

Leaves == {Null} \cup Numbers

OptOf(S) == {None} \cup {Some(v) : v \in S}

\* The entries of an object with at most the keys "a" and "b", in key order.
Entries(oa, ob) ==
    (IF IsSome(oa) THEN << <<"a", oa[1]>> >> ELSE <<>>)
        \o (IF IsSome(ob) THEN << <<"b", ob[1]>> >> ELSE <<>>)

InnerObjects == {Obj(Entries(oa, ob)) : oa \in OptOf(Leaves), ob \in OptOf(Leaves)}

Arrays == {Arr(<<Null, Num(1)>>)}

Inner == Leaves \cup Arrays \cup InnerObjects

Objects == {Obj(Entries(oa, ob)) : oa \in OptOf(Inner), ob \in OptOf(Leaves)}

Scalars == {Null, Bool(TRUE), Str("s"), Arr(<<>>)} \cup Numbers \cup Arrays

Trees == Scalars \cup Objects

ForcedSets == {{}, {""}, {"a"}, {"b"}, {"a.b"}, {"a", "a.b"}, {"a.a", "b"}}

(***************************************************************************)
(* Spec: diff or diff_including of (old, new), then the patch merged onto  *)
(* old.                                                                    *)
(***************************************************************************)
NoRecord == [kind |-> "none"]

Init ==
    /\ pc = "start"
    /\ old \in Trees
    /\ new \in Trees
    /\ including \in ForcedSets
    /\ patch = Null
    /\ merged = Null
    /\ current = NoRecord
    /\ input = NoRecord
    /\ ret = NoRecord

\* serde_patch::diff(&old, &new)
Diff ==
    /\ pc = "start"
    /\ including = {}
    /\ patch' = diff(old, new)
    /\ pc' = "diffed"
    /\ UNCHANGED <<old, new, including, merged, current, input, ret>>

\* serde_patch::diff_including(&old, &new, including)
DiffIncluding ==
    /\ pc = "start"
    /\ patch' = diff_including(old, new, including)
    /\ pc' = "diffed_including"
    /\ UNCHANGED <<old, new, including, merged, current, input, ret>>

Diffed == pc \in {"diffed", "diffed_including"}

\* apply_patch.rs merge_patch(&mut old, &patch)
Merge ==
    /\ Diffed
    /\ merged' = merge_patch(old, patch)
    /\ pc' = "merged"
    /\ UNCHANGED <<old, new, including, patch, current, input, ret>>

\* apply_patch_mut.rs merge_patch(&mut old, &patch)
MergeMut ==
    /\ Diffed
    /\ merged' = merge_patch_mut(old, patch)
    /\ pc' = "merged_mut"
    /\ UNCHANGED <<old, new, including, patch, current, input, ret>>

Merged == pc \in {"merged", "merged_mut"}

Next == Diff \/ DiffIncluding \/ Merge \/ MergeMut

Spec == Init /\ [][Next]_vars

(***************************************************************************)
(* Paths, for stating the claims: a path is a sequence of object keys.     *)
(***************************************************************************)
Keys == {"a", "b"}

KeyPaths == {<<k>> : k \in Keys} \cup {<<k1, k2>> : k1 \in Keys, k2 \in Keys}

Levels == {<<>>} \cup {<<k>> : k \in Keys}

RECURSIVE HasPath(_, _)
RECURSIVE ValueAt(_, _)
RECURSIVE Join(_)
RECURSIVE HasNullMember(_)

\* Path p leads through objects of v to an entry.
HasPath(v, p) ==
    IF p = <<>>
    THEN TRUE
    ELSE /\ is_object(v)
         /\ contains_key(v.m, Head(p))
         /\ HasPath(MapGet(v.m, Head(p))[1], Tail(p))

ValueAt(v, p) == IF p = <<>> THEN v ELSE ValueAt(MapGet(v.m, Head(p))[1], Tail(p))

\* The dot-joined string of a path, as compute_diff builds it.
Join(p) ==
    IF p = <<>> THEN "" ELSE full_path(Join(SubSeq(p, 1, Len(p) - 1)), p[Len(p)])

IsPrefix(p, q) == Len(p) <= Len(q) /\ SubSeq(q, 1, Len(p)) = p

\* Some object of v, reached through objects only, has a null-valued member.
HasNullMember(v) ==
    /\ is_object(v)
    /\ \E i \in 1..Len(v.m) : is_null(v.m[i][2]) \/ HasNullMember(v.m[i][2])

\* Old and new are both objects at level q (and at every level above it).
ObjectLevel(q) ==
    /\ HasPath(old, q) /\ is_object(ValueAt(old, q))
    /\ HasPath(new, q) /\ is_object(ValueAt(new, q))

\* The value at p is the same in old and new.
Unchanged(p) == HasPath(old, p) /\ HasPath(new, p) /\ ValueAt(old, p) = ValueAt(new, p)

IsSorted(ks) == \A i \in 1..Len(ks) : \A j \in 1..Len(ks) : i < j => KeyLess(ks[i], ks[j])

(***************************************************************************)
(* Claims checked under Spec                                               *)
(***************************************************************************)

\* C1 (as stated): the patch of (old, new), whatever the forced set, merged
\* onto old gives a tree equal to new.
C1_RoundTrip == Merged => merged = new

\* C1 (amended): the round trip holds when new has no null-valued object
\* member and the diff was not the empty diff of two equal non-object roots.
C1_RoundTripNoNull ==
    (/\ Merged
     /\ ~HasNullMember(new)
     /\ ~(old = new /\ ~is_object(new) /\ "" \notin including))
        => merged = new

C1_Witness ==
    /\ Merged
    /\ ~HasNullMember(new)
    /\ is_object(old) /\ is_object(new)
    /\ \E k \in Keys : contains_key(old.m, k) /\ ~contains_key(new.m, k)
    /\ HasPath(new, <<"a", "b">>) /\ ~Unchanged(<<"a", "b">>)
    /\ including = {"a"}
    /\ merged = new

\* C3: diff(x, x) with no forced paths is the empty object, for every tree x.
C3_EmptyDiff == (pc = "diffed" /\ old = new) => patch = Obj(MapNew)

C3_Witness == pc = "diffed" /\ old = new /\ old = Num(1) /\ patch = Obj(MapNew)

\* C4: a key of old's object that new's object lacks, at a level where both
\* are objects, is null in the patch at that level, and is absent from the
\* merged tree.
C4_Deletion ==
    \A q \in Levels : \A k \in Keys :
        (ObjectLevel(q) /\ HasPath(old, q \o <<k>>) /\ ~HasPath(new, q \o <<k>>))
            => /\ Diffed => /\ HasPath(patch, q \o <<k>>)
                            /\ ValueAt(patch, q \o <<k>>) = Null
               /\ Merged => /\ HasPath(merged, q)
                            /\ is_object(ValueAt(merged, q))
                            /\ ~HasPath(merged, q \o <<k>>)

C4_Witness ==
    /\ Merged
    /\ ObjectLevel(<<"a">>)
    /\ HasPath(old, <<"a", "b">>) /\ ~HasPath(new, <<"a", "b">>)
    /\ ValueAt(patch, <<"a", "b">>) = Null
    /\ ~HasPath(merged, <<"a", "b">>)

ForcedBeneath(p) == \E f \in KeyPaths : Join(f) \in including /\ IsPrefix(p, f) /\ f # p

ForcedAtOrBeneath(q) == \E p \in KeyPaths : Join(p) \in including /\ IsPrefix(q, p)

\* A forced path strictly above q.
ForcedAbove(q) == \E p \in KeyPaths : Join(p) \in including /\ IsPrefix(p, q) /\ p # q

\* The key at q is new or its value differs between old and new.
Changed(q) == HasPath(new, q) /\ ~Unchanged(q)

\* The key at q was removed in new and the patch marks it with null.
Removed(q) == HasPath(old, q) /\ ~HasPath(new, q) /\ ValueAt(patch, q) = Null

\* C6 (as stated): every key of the patch, at any level, is changed or new,
\* removed, or has a forced path at or beneath it.
C6_ChangedOnly ==
    (Diffed /\ is_object(old) /\ is_object(new))
        => \A q \in KeyPaths :
               HasPath(patch, q) => Changed(q) \/ Removed(q) \/ ForcedAtOrBeneath(q)

\* C6 (amended): ... or lies beneath a forced path, whose value is copied whole.
C6_ChangedOrUnderForced ==
    (Diffed /\ is_object(old) /\ is_object(new))
        => \A q \in KeyPaths :
               HasPath(patch, q)
                   => Changed(q) \/ Removed(q) \/ ForcedAtOrBeneath(q) \/ ForcedAbove(q)

C6_Witness ==
    /\ pc = "diffed_including"
    /\ is_object(old) /\ is_object(new)
    /\ including = {"a", "a.b"}
    /\ Unchanged(<<"a", "a">>) /\ Unchanged(<<"b">>)
    /\ Changed(<<"a", "b">>)
    /\ HasPath(patch, <<"a", "b">>)
    /\ ~HasPath(patch, <<"a", "a">>)
    /\ ~HasPath(patch, <<"b">>)

\* The keys of sequence ks that satisfy Keep, in ks's order.
KeptKeys(ks, Keep(_)) == SelectSeq(ks, Keep)

\* C9 (as stated): at every level where old and new are objects, the patch
\* object's keys are new's keys in new's order, then the keys only old has.
C9_NewKeysThenRemoved ==
    Diffed
        => \A q \in Levels :
               (ObjectLevel(q) /\ HasPath(patch, q) /\ is_object(ValueAt(patch, q)))
                   => LET pm == ValueAt(patch, q).m
                          om == ValueAt(old, q).m
                          nm == ValueAt(new, q).m
                      IN  MapKeys(pm)
                              = KeptKeys(MapKeys(nm), LAMBDA k : contains_key(pm, k))
                                  \o KeptKeys(MapKeys(om), LAMBDA k : ~contains_key(nm, k))

\* C9 (amended): the patch object's keys are in ascending key order, the
\* removed keys' markers among new's keys; they are the kept keys of new and
\* the keys only old has.
C9_SortedKeys ==
    Diffed
        => \A q \in Levels :
               (ObjectLevel(q) /\ HasPath(patch, q) /\ is_object(ValueAt(patch, q)))
                   => LET pm == ValueAt(patch, q).m
                          om == ValueAt(old, q).m
                          nm == ValueAt(new, q).m
                      IN  /\ IsSorted(MapKeys(pm))
                          /\ KeySet(om) \ KeySet(nm) \subseteq KeySet(pm)
                          /\ KeySet(pm) \subseteq KeySet(om) \cup KeySet(nm)

C9_Witness ==
    /\ Diffed
    /\ ObjectLevel(<<"a">>)
    /\ HasPath(old, <<"a", "a">>) /\ ~HasPath(new, <<"a", "a">>)
    /\ HasPath(new, <<"a", "b">>)
    /\ HasPath(patch, <<"a">>) /\ is_object(ValueAt(patch, <<"a">>))
    /\ MapKeys(ValueAt(patch, <<"a">>).m) = <<"a", "b">>

(***************************************************************************)
(* SpecMerge: any patch tree merged onto any base tree (old is the base).  *)
(***************************************************************************)
InitMerge ==
    /\ pc = "base"
    /\ old \in Trees
    /\ patch \in Trees
    /\ new = Null
    /\ including = {}
    /\ merged = Null
    /\ current = NoRecord
    /\ input = NoRecord
    /\ ret = NoRecord

\* apply_patch.rs merge_patch(&mut base, &patch)
MergeTree ==
    /\ pc = "base"
    /\ merged' = merge_patch(old, patch)
    /\ pc' = "merged"
    /\ UNCHANGED <<old, new, including, patch, current, input, ret>>

\* apply_patch_mut.rs merge_patch(&mut base, &patch)
MergeTreeMut ==
    /\ pc = "base"
    /\ merged' = merge_patch_mut(old, patch)
    /\ pc' = "merged_mut"
    /\ UNCHANGED <<old, new, including, patch, current, input, ret>>

NextMerge == MergeTree \/ MergeTreeMut

SpecMerge == InitMerge /\ [][NextMerge]_vars

\* The merge_patch that produced the current state, applied to (t, p).
MergeAs(t, p) == IF pc = "merged_mut" THEN merge_patch_mut(t, p) ELSE merge_patch(t, p)

EmptyObject == Obj(MapNew)

\* C2 (as stated): the empty patch merged onto any base, whatever its
\* variant, gives that base.
C2_NoOpMerge == (Merged /\ patch = EmptyObject) => merged = old

\* C2 (amended): the empty patch merged onto an object base gives that base;
\* onto a base that is not an object it gives the empty object.
C2_NoOpMergeObject ==
    (Merged /\ patch = EmptyObject)
        => merged = (IF is_object(old) THEN old ELSE EmptyObject)

C2_Witness ==
    /\ Merged
    /\ patch = EmptyObject
    /\ HasPath(old, <<"a", "b">>) /\ HasPath(old, <<"b">>)
    /\ merged = old

RECURSIVE Frame(_, _, _)

\* Every key of object b that object patch p lacks has in r the value it has
\* in b, and so on under the keys where both b and p hold objects.
Frame(b, p, r) ==
    (is_object(b) /\ is_object(p))
        => /\ is_object(r)
           /\ \A k \in KeySet(b.m) :
                  /\ ~contains_key(p.m, k) => MapGet(r.m, k) = MapGet(b.m, k)
                  /\ (/\ contains_key(p.m, k)
                      /\ is_object(MapGet(p.m, k)[1])
                      /\ is_object(MapGet(b.m, k)[1]))
                         => /\ contains_key(r.m, k)
                            /\ Frame(MapGet(b.m, k)[1], MapGet(p.m, k)[1], MapGet(r.m, k)[1])

\* C7: merging an object patch onto an object base leaves every base key the
\* patch does not name with its value, at every level where both are objects.
C7_MergeFrame == Merged => Frame(old, patch, merged)

C7_Witness ==
    /\ Merged
    /\ is_object(old) /\ is_object(patch)
    /\ HasPath(old, <<"b">>) /\ ~HasPath(patch, <<"b">>)
    /\ HasPath(old, <<"a", "a">>) /\ ~HasPath(patch, <<"a", "a">>)
    /\ HasPath(patch, <<"a", "b">>) /\ ~is_null(ValueAt(patch, <<"a", "b">>))
    /\ HasPath(old, <<"a", "b">>)
    /\ ValueAt(old, <<"a", "b">>) # ValueAt(patch, <<"a", "b">>)
    /\ ValueAt(merged, <<"a", "a">>) = ValueAt(old, <<"a", "a">>)
    /\ ValueAt(merged, <<"b">>) = ValueAt(old, <<"b">>)

\* The keys of map m whose value is not null.
NonNullKeys(m) == {m[i][1] : i \in {j \in 1..Len(m) : ~is_null(m[j][2])}}

\* C10: an object patch merged onto a target that is not an object (at the
\* root, or under a key whose entry is missing or not an object) gives what
\* merging it onto the empty object gives: an object with exactly the
\* patch's non-null keys.
C10_Coercion ==
    (Merged /\ is_object(patch))
        => /\ ~is_object(old)
               => /\ merged = MergeAs(EmptyObject, patch)
                  /\ is_object(merged)
                  /\ KeySet(merged.m) = NonNullKeys(patch.m)
           /\ \A k \in Keys :
                  (/\ HasPath(patch, <<k>>)
                   /\ is_object(ValueAt(patch, <<k>>))
                   /\ ~(HasPath(old, <<k>>) /\ is_object(ValueAt(old, <<k>>))))
                      => /\ HasPath(merged, <<k>>)
                         /\ ValueAt(merged, <<k>>)
                                = MergeAs(EmptyObject, ValueAt(patch, <<k>>))
                         /\ KeySet(ValueAt(merged, <<k>>).m)
                                = NonNullKeys(ValueAt(patch, <<k>>).m)

C10_Witness ==
    /\ Merged
    /\ old = Arr(<<Null, Num(1)>>)
    /\ HasPath(patch, <<"a", "b">>) /\ ~is_null(ValueAt(patch, <<"a", "b">>))
    /\ HasPath(patch, <<"b">>) /\ is_null(ValueAt(patch, <<"b">>))
    /\ is_object(merged)
    /\ KeySet(merged.m) = {"a"}

(***************************************************************************)
(* The typed layer: apply_merge_patch and apply_merge_patch_mut with       *)
(* T = User, the struct of lib.rs, converted by serde's derived            *)
(* Serialize / Deserialize.                                                *)
(***************************************************************************)
Ok(v) == [ok |-> TRUE, v |-> v]
Err(e) == [ok |-> FALSE, e |-> e]

\* lib.rs 15-19
Profile(bio, avatar_url) == [kind |-> "Profile", bio |-> bio, avatar_url |-> avatar_url]

\* lib.rs 21-28
User(id, username, age, active, profile) ==
    [kind |-> "User", id |-> id, username |-> username, age |-> age,
     active |-> active, profile |-> profile]

\* A value of a type T whose Serialize fails (a map with keys that are not
\* strings, say): to_value returns Err for it.
Unserializable == [kind |-> "Unserializable"]

\* age: u8
U8Max == 255

\* Serialize for Profile: the fields in declaration order into a Map
ProfileToValue(p) ==
    Obj(MapInsert(MapInsert(MapNew, "bio", Str(p.bio)),
                  "avatar_url",
                  IF IsSome(p.avatar_url) THEN Str(p.avatar_url[1]) ELSE Null))

\* Serialize for User
UserToValue(u) ==
    Obj(MapInsert(MapInsert(MapInsert(MapInsert(MapInsert(MapNew,
            "id", Num(u.id)),
            "username", Str(u.username)),
            "age", Num(u.age)),
            "active", Bool(u.active)),
            "profile",
            IF IsSome(u.profile) THEN ProfileToValue(u.profile[1]) ELSE Null))

\* serde_json::to_value(&current)
to_value(r) == IF r.kind = "User" THEN Ok(UserToValue(r)) ELSE Err("to_value")

\* The value a struct field is read from: the entry of an object, the
\* element at the field's position of an array of exactly n elements.
Field(v, key, pos, n) ==
    IF is_object(v)
    THEN MapGet(v.m, key)
    ELSE IF v.t = "arr" /\ Len(v.a) = n THEN Some(v.a[pos]) ELSE None

StructShaped(v, n) == is_object(v) \/ (v.t = "arr" /\ Len(v.a) = n)

IsStr(o) == IsSome(o) /\ o[1].t = "str"
IsBool(o) == IsSome(o) /\ o[1].t = "bool"
IsUInt(o, max) == IsSome(o) /\ o[1].t = "num" /\ o[1].n >= 0 /\ o[1].n <= max
IsU32(o) == IsSome(o) /\ o[1].t = "num" /\ o[1].n >= 0

\* Option<String>: a missing field or null is None
OptStrOk(o) == ~IsSome(o) \/ o[1].t \in {"null", "str"}
OptStr(o) == IF IsSome(o) /\ o[1].t = "str" THEN Some(o[1].s) ELSE None

\* Deserialize for Profile
ProfileFromValue(v) ==
    LET bio == Field(v, "bio", 1, 2)
        avatar_url == Field(v, "avatar_url", 2, 2)
    IN  IF StructShaped(v, 2) /\ IsStr(bio) /\ OptStrOk(avatar_url)
        THEN Ok(Profile(bio[1].s, OptStr(avatar_url)))
        ELSE Err("from_value")

\* Option<Profile>
OptProfile(o) ==
    IF ~IsSome(o) \/ is_null(o[1])
    THEN Ok(None)
    ELSE LET p == ProfileFromValue(o[1])
         IN  IF p.ok THEN Ok(Some(p.v)) ELSE p

\* serde_json::from_value::<User>(v)
from_value(v) ==
    LET id == Field(v, "id", 1, 5)
        username == Field(v, "username", 2, 5)
        age == Field(v, "age", 3, 5)
        active == Field(v, "active", 4, 5)
        profile == OptProfile(Field(v, "profile", 5, 5))
    IN  IF /\ StructShaped(v, 5)
           /\ IsU32(id) /\ IsStr(username) /\ IsUInt(age, U8Max) /\ IsBool(active)
           /\ profile.ok
        THEN Ok(User(id[1].n, username[1].s, age[1].n, active[1].b, profile.v))
        ELSE Err("from_value")

\* The patch bytes: a well-formed JSON document, given as the tree it parses
\* to, or bytes that are no JSON document.
Json(doc) == [kind |-> "json", doc |-> doc]
Malformed == [kind |-> "malformed"]

\* serde_json::from_str / from_slice
from_slice(bytes) == IF bytes.kind = "json" THEN Ok(bytes.doc) ELSE Err("parse")

\* apply_patch.rs 4-26: the result returned
apply_merge_patch(cur, patch_json) ==
    LET current_val == to_value(cur)
        patch_val == from_slice(patch_json)
    IN  IF ~current_val.ok THEN current_val
        ELSE IF ~patch_val.ok THEN patch_val
        ELSE from_value(merge_patch(current_val.v, patch_val.v))

\* A mutant of apply_merge_patch_mut: the fields of the merged tree that
\* convert are stored one by one before the conversion as a whole is judged.
apply_merge_patch_mut_fieldwise(cur, patch_bytes) ==
    LET current_val == to_value(cur)
        patch_val == from_slice(patch_bytes)
    IN  IF ~current_val.ok THEN [current |-> cur, ret |-> current_val]
        ELSE IF ~patch_val.ok THEN [current |-> cur, ret |-> patch_val]
        ELSE LET m == merge_patch_mut(current_val.v, patch_val.v)
                 r == from_value(m)
                 age == Field(m, "age", 3, 5)
             IN  IF r.ok
                 THEN [current |-> r.v, ret |-> Ok(<<>>)]
                 ELSE [current |-> IF IsUInt(age, U8Max)
                                   THEN [cur EXCEPT !.age = age[1].n]
                                   ELSE cur,
                       ret |-> r]

\* apply_patch_mut.rs 17-27: the record after the call and the result
apply_merge_patch_mut(cur, patch_bytes) ==
    LET current_val == to_value(cur)
        patch_val == from_slice(patch_bytes)
    IN  IF ~current_val.ok THEN [current |-> cur, ret |-> current_val]
        ELSE IF ~patch_val.ok THEN [current |-> cur, ret |-> patch_val]
        ELSE LET r == from_value(merge_patch_mut(current_val.v, patch_val.v))
             IN  IF r.ok
                 THEN [current |-> r.v, ret |-> Ok(<<>>)]
                 ELSE [current |-> cur, ret |-> r]

(***************************************************************************)
(* SpecMut: one apply or apply_mut call on a record and patch bytes.       *)
(***************************************************************************)
Profiles == {Profile("dev", None), Profile("dev", Some("old.jpg"))}

Users ==
    {User(1001, "alice", age, active, profile) :
        age \in {30, U8Max}, active \in BOOLEAN, profile \in OptOf(Profiles)}

Records == Users \cup {Unserializable}

ProfileEntries(obio, ourl) ==
    (IF IsSome(ourl) THEN << <<"avatar_url", ourl[1]>> >> ELSE <<>>)
        \o (IF IsSome(obio) THEN << <<"bio", obio[1]>> >> ELSE <<>>)

ProfilePatches ==
    {Null, Num(1)}
        \cup {Obj(ProfileEntries(obio, ourl)) :
                 obio \in OptOf({Null, Str("senior dev")}),
                 ourl \in OptOf({Null, Str("new.jpg"), Num(1)})}

UserEntries(oage, oprofile) ==
    (IF IsSome(oage) THEN << <<"age", oage[1]>> >> ELSE <<>>)
        \o (IF IsSome(oprofile) THEN << <<"profile", oprofile[1]>> >> ELSE <<>>)

PatchDocs ==
    {Null, Num(1), Arr(<<>>),
     Arr(<<Num(7), Str("bob"), Num(40), Bool(TRUE), Null>>),
     Arr(<<Num(7), Str("bob"), Num(U8Max + 1), Bool(TRUE), Null>>)}
        \cup {Obj(UserEntries(oage, oprofile)) :
                 oage \in OptOf({Null, Num(31), Num(U8Max + 1), Str("31")}),
                 oprofile \in OptOf(ProfilePatches)}

Inputs == {Malformed} \cup {Json(doc) : doc \in PatchDocs}

InitMut ==
    /\ pc = "call"
    /\ current \in Records
    /\ input \in Inputs
    /\ ret = NoRecord
    /\ old = Null
    /\ new = Null
    /\ including = {}
    /\ patch = Null
    /\ merged = Null

\* serde_patch::apply!(current.clone(), input)
Apply ==
    /\ pc = "call"
    /\ ret' = apply_merge_patch(current, input)
    /\ pc' = "applied"
    /\ UNCHANGED <<old, new, including, patch, merged, current, input>>

\* serde_patch::apply_mut!(&mut current, input)
ApplyMut ==
    /\ pc = "call"
    /\ LET r == apply_merge_patch_mut(current, input)
       IN  /\ current' = r.current
           /\ ret' = r.ret
    /\ pc' = "applied_mut"
    /\ UNCHANGED <<old, new, including, patch, merged, input>>

NextMut == Apply \/ ApplyMut

SpecMut == InitMut /\ [][NextMut]_vars

\* C8: when apply_merge_patch_mut returns an error the record is what it was
\* before the call; the record changes only in a call that returns Ok.
C8_AllOrNothing ==
    [][(pc' = "applied_mut")
          => /\ ~ret'.ok => current' = current
             /\ current' # current => ret'.ok]_vars

\* apply_mut with {"age": null} on a User: age is required, the conversion
\* back fails.
C8_Witness ==
    /\ pc = "applied_mut"
    /\ input = Json(Obj(<< <<"age", Null>> >>))
    /\ current \in Users
    /\ ~ret.ok
    /\ ret.e = "from_value"

=============================================================================
